---- MODULE Spec2Model ----
(***************************************************************************)
(* Model of the datezip MCP server (src/mcp/server.py) and of the datezip  *)
(* versioning engine it drives.                                            *)
(*                                                                         *)
(* Text is modelled as a sequence of tokens (a "word"): a token is an      *)
(* atom of the string such as "/", "..", ",", a file name or a timestamp.  *)
(* A process output is a sequence of lines, each line a word.              *)
(***************************************************************************)
EXTENDS Integers, Sequences, FiniteSets, TLC

\* ---------------------------------------------------------------- bounds
MaxCalls == 2      \* tool calls that may be in flight in the event loop
MaxLines == 2      \* lines of output of one datezip process
MaxArchives == 2   \* archives in the store while snapshots are restored
MaxTime == 2       \* the clock stops here while snapshots are restored
MaxKept == 4       \* archives in the store while it is pruned
MaxAge == 5        \* the clock stops here while the store is pruned
TicksPerDay == 1   \* seconds of a day, on the scale of the model's clock

Calls == 1..MaxCalls

VARIABLES
    pc,        \* pc[c]: position of tool call c in its handler
    op,        \* op[c]: the tool the call runs
    param,     \* param[c]: the arguments the caller passed
    args,      \* args[c]: the argument vector handed to run_datezip
    proc,      \* proc[c]: the datezip subprocess of the call
    result,    \* result[c]: what the call returned or raised
    tmp_dir,   \* tmp_dir[c]: scratch directory of get_historical_content
    opened,    \* opened[c]: resolved paths the call has opened for reading
    scratch,   \* names of the scratch directories that exist under /tmp
    fs         \* files on disk: set of [path, data]

wvars == <<pc, op, param, args, proc, result, tmp_dir, opened, scratch, fs>>

\* the versioning engine behind the datezip command
VARIABLES
    store,      \* Archive Store: the set of archives on disk
    head,       \* timestamp of the current chain head, 0 when there is none
    workspace,  \* the project directory: path -> content, or Absent
    now,        \* the clock, in seconds
    last        \* the last datezip run: what was asked and what came of it

evars == <<store, head, workspace, now, last>>

\* ------------------------------------------------------- Python helpers
\* Optional[T]: None or a value
None == [given |-> FALSE, val |-> <<>>]
Some(v) == [given |-> TRUE, val |-> v]

\* truth value of an Optional list or string in `if x:`
Truthy(o) == o.given /\ o.val # <<>>

\* sep.join(list) on words
RECURSIVE Join(_, _)
Join(sep, list) ==
    IF list = <<>> THEN <<>>
    ELSE IF Len(list) = 1 THEN Head(list)
    ELSE Head(list) \o sep \o Join(sep, Tail(list))

\* `a or b` on texts
OrElse(a, b) == IF a # <<>> THEN a ELSE b

\* str.strip() on a line: drop leading and trailing blanks
RECURSIVE LStrip(_)
LStrip(w) == IF w # <<>> /\ Head(w) = " " THEN LStrip(Tail(w)) ELSE w
RECURSIVE RStrip(_)
RStrip(w) ==
    IF w # <<>> /\ w[Len(w)] = " " THEN RStrip(SubSeq(w, 1, Len(w) - 1)) ELSE w
Strip(w) == RStrip(LStrip(w))

\* str.strip() on a whole output: drop leading and trailing blank lines and
\* the blanks at both ends of the text
RECURSIVE LStripText(_)
LStripText(t) ==
    IF t = <<>> THEN <<>>
    ELSE IF LStrip(Head(t)) = <<>> THEN LStripText(Tail(t))
    ELSE <<LStrip(Head(t))>> \o Tail(t)
RECURSIVE RStripText(_)
RStripText(t) ==
    IF t = <<>> THEN <<>>
    ELSE IF RStrip(t[Len(t)]) = <<>> THEN RStripText(SubSeq(t, 1, Len(t) - 1))
    ELSE SubSeq(t, 1, Len(t) - 1) \o <<RStrip(t[Len(t)])>>
StripText(t) == RStripText(LStripText(t))

\* os.path.join(a, b) for two path words
PathJoin(a, b) ==
    IF b # <<>> /\ Head(b) = "/" THEN b
    ELSE IF a = <<>> \/ a[Len(a)] = "/" THEN a \o b
    ELSE a \o <<"/">> \o b

\* the file a path word names: its components with "/" dropped and ".."
\* resolved, as the operating system resolves it
RECURSIVE ResolveFrom(_, _)
ResolveFrom(stack, w) ==
    IF w = <<>> THEN stack
    ELSE IF Head(w) = "/" THEN ResolveFrom(stack, Tail(w))
    ELSE IF Head(w) = ".."
        THEN ResolveFrom(IF stack = <<>> THEN <<>>
                         ELSE SubSeq(stack, 1, Len(stack) - 1), Tail(w))
    ELSE ResolveFrom(stack \o <<Head(w)>>, Tail(w))
Resolve(w) == ResolveFrom(<<>>, w)

IsUnder(path, dir) ==
    Len(path) >= Len(dir) /\ SubSeq(path, 1, Len(dir)) = dir

\* ------------------------------------------------------------ input sets
Modes == {<<"auto">>, <<"full">>, <<"inc">>}
Timestamps == {<<"T1">>, <<"T2">>}
\* file names: plain, with a comma, climbing out with "..", absolute
PlainNames == {<<"a.txt">>, <<"b.txt">>}
FileNames == PlainNames \cup
    {<<"..", "/", "..", "/", "ws", "/", "a.txt">>, <<"/", "ws", "/", "a.txt">>}
FileLists == {<<>>, <<<<"a.txt">>>>, <<<<"a.txt">>, <<"b.txt">>>>,
              <<<<"a.txt", ",", "b.txt">>>>}
RestoreTypes == {<<"e">>, <<"j">>}
KeepValues == {0, 1}

\* str(n) for the integers the model passes
Digit == <<"0", "1", "2", "3", "4", "5", "6", "7", "8", "9">>
Str(n) == IF n < 0 THEN <<"-", Digit[(0 - n) + 1]>> ELSE <<Digit[n + 1]>>

\* names tempfile.mkdtemp can hand out
TmpPool == <<"t1", "t2", "t3", "t4", "t5">>
TmpNames == {TmpPool[i] : i \in 1..MaxCalls}
TmpWord(name) == <<"/", "tmp", "/", name>>

\* the live workspace: the files of the project directory
LiveFiles == {[path |-> <<"ws", "a.txt">>, data |-> "live"]}

NoProc == [status |-> "none", code |-> 0, out |-> <<>>, err |-> <<>>,
           found |-> FALSE]
NoResult == [tag |-> "none", val |-> <<>>]
Returned(v) == [tag |-> "return", val |-> v]
Raised(v) == [tag |-> "raise", val |-> v]

NoParam == [timestamp |-> <<>>, filename |-> <<>>, files |-> None]

\* what the datezip process can print: up to MaxLines lines of a given set
Outputs(lines) == UNION {[1..n -> lines] : n \in 0..MaxLines}

\* lines of `datezip --list`: an entry, an entry with blanks around it, and
\* an entry whose archive name does not have the expected prefix
ListLines ==
    {<<"[", "1", "]", " ", "datezip_", "T1", "_", "FULL", ".zip">>,
     <<" ", "[", "2", "]", " ", "datezip_", "T2", "_", "INC", ".zip", " ">>,
     <<"[", "3", "]", " ", "backup_", "T1", "_", "FULL", ".zip">>}

\* lines of `datezip --history`: a new file, a modified file, and a line with
\* a status character other than + and .
HistoryLines ==
    {<<"T1", " ", "+", " ", "a.txt">>,
     <<"T2", " ", ".", " ", "a.txt">>,
     <<"T2", " ", "-", " ", "b.txt">>}

\* tokens that are a run of digits, and tokens of the form [0-9]{8}_[0-9]{6}
DigitTokens == {Digit[i] : i \in 1..Len(Digit)}
TsTokens == {"T1", "T2"}

\* ---------------------------------------------------------- run_datezip
\* what run_datezip returns once the process has exited
run_datezip(p) ==
    [code |-> p.code, stdout |-> StripText(p.out), stderr |-> StripText(p.err)]

\* a handler runs up to `await run_datezip(*args)`
Invoke(c, o, p, a) ==
    /\ pc[c] = "idle"
    /\ pc' = [pc EXCEPT ![c] = "spawning"]
    /\ op' = [op EXCEPT ![c] = o]
    /\ param' = [param EXCEPT ![c] = p]
    /\ args' = [args EXCEPT ![c] = a]
    /\ result' = [result EXCEPT ![c] = NoResult]
    /\ opened' = [opened EXCEPT ![c] = {}]
    /\ proc' = [proc EXCEPT ![c] = NoProc]
    /\ UNCHANGED evars

\* asyncio.create_subprocess_exec starts the process; the handler then awaits
\* process.communicate()
run_datezip_spawn(c) ==
    /\ pc[c] = "spawning"
    /\ pc' = [pc EXCEPT ![c] = "waiting"]
    /\ proc' = [proc EXCEPT ![c] = [NoProc EXCEPT !.status = "running"]]
    /\ UNCHANGED <<op, param, args, result, tmp_dir, opened, scratch, fs>>
    /\ UNCHANGED evars

\* shutil.rmtree(dir)
rmtree(name) ==
    /\ scratch' = scratch \ {name}
    /\ fs' = {f \in fs : ~IsUnder(f.path, <<"tmp", name>>)}

\* the scratch directory removed after the try block instead of in a
\* `finally` clause: an exception skips it
FinallyAfterTry(c) ==
    IF op[c] = "get_historical_content" /\ result'[c].tag = "return"
    THEN rmtree(tmp_dir[c][4])
    ELSE UNCHANGED <<scratch, fs>>

\* the `finally` clause of get_historical_content; no other handler has one
Finally(c) ==
    IF op[c] = "get_historical_content"
    THEN rmtree(tmp_dir[c][4])
    ELSE UNCHANGED <<scratch, fs>>

\* asyncio.create_subprocess_exec raises (no datezip executable): the
\* exception leaves the handler
run_datezip_spawn_error(c) ==
    /\ pc[c] = "spawning"
    /\ pc' = [pc EXCEPT ![c] = "done"]
    /\ result' = [result EXCEPT ![c] = Raised(<<<<"OSError">>>>)]
    /\ Finally(c)
    /\ UNCHANGED <<op, param, args, proc, tmp_dir, opened>>
    /\ UNCHANGED evars

\* the caller takes the result; the slot is free for the next call
Collect(c) ==
    /\ pc[c] = "done"
    /\ pc' = [pc EXCEPT ![c] = "idle"]
    /\ op' = [op EXCEPT ![c] = "none"]
    /\ param' = [param EXCEPT ![c] = NoParam]
    /\ args' = [args EXCEPT ![c] = <<>>]
    /\ proc' = [proc EXCEPT ![c] = NoProc]
    /\ result' = [result EXCEPT ![c] = NoResult]
    /\ tmp_dir' = [tmp_dir EXCEPT ![c] = <<>>]
    /\ opened' = [opened EXCEPT ![c] = {}]
    /\ UNCHANGED <<scratch, fs>>
    /\ UNCHANGED evars

\* the handler continues after `await run_datezip(*args)` returned
Resumes(c, o) ==
    /\ pc[c] = "waiting"
    /\ op[c] = o
    /\ proc[c].status = "exited"

Return(c, r) ==
    /\ pc' = [pc EXCEPT ![c] = "done"]
    /\ result' = [result EXCEPT ![c] = r]
    /\ UNCHANGED evars

\* ------------------------------------------------------- create_backup
create_backup_args(mode) ==
    IF mode = <<"full">> THEN <<<<"--full">>>>
    ELSE IF mode = <<"inc">> THEN <<<<"--inc">>>>
    ELSE <<>>

create_backup(c, mode) ==
    /\ Invoke(c, "create_backup", NoParam, create_backup_args(mode))
    /\ UNCHANGED <<tmp_dir, scratch, fs>>

create_backup_resume(c) ==
    /\ Resumes(c, "create_backup")
    /\ LET r == run_datezip(proc[c]) IN
       IF r.code # 0
       THEN Return(c, Returned(<<<<"Backup failed:">>>> \o OrElse(r.stderr, r.stdout)))
       ELSE Return(c, Returned(<<<<"Backup successful:">>>> \o r.stdout))
    /\ UNCHANGED <<op, param, args, proc, tmp_dir, opened, scratch, fs>>

\* -------------------------------------------------------- list_backups
\* re.compile(r"^\[\d+\]\s+(datezip_([0-9]{8}_[0-9]{6})_(FULL|INC)\.zip)")
\* .match(line): the pattern is matched at the start of the line
list_pattern_match(l) ==
    /\ Len(l) >= 9
    /\ l[1] = "[" /\ l[2] \in DigitTokens /\ l[3] = "]" /\ l[4] = " "
    /\ l[5] = "datezip_" /\ l[6] \in TsTokens /\ l[7] = "_"
    /\ l[8] \in {"FULL", "INC"} /\ l[9] = ".zip"

RECURSIVE list_backups_parse(_)
list_backups_parse(lines) ==
    IF lines = <<>> THEN <<>>
    ELSE LET l == Strip(Head(lines)) IN
         (IF list_pattern_match(l)
          THEN <<[filename |-> SubSeq(l, 5, 9), timestamp |-> l[6], type |-> l[8]]>>
          ELSE <<>>) \o list_backups_parse(Tail(lines))

list_backups(c) ==
    /\ Invoke(c, "list_backups", NoParam, <<<<"--list">>>>)
    /\ UNCHANGED <<tmp_dir, scratch, fs>>

list_backups_resume(c) ==
    /\ Resumes(c, "list_backups")
    /\ LET r == run_datezip(proc[c]) IN
       IF r.code # 0
       THEN Return(c, Raised(<<<<"Failed to list backups:">>>> \o r.stderr))
       ELSE Return(c, Returned(list_backups_parse(r.stdout)))
    /\ UNCHANGED <<op, param, args, proc, tmp_dir, opened, scratch, fs>>

\* --------------------------------------------------------- get_history
get_history_args(files, from_ts, to_ts) ==
    <<<<"--history">>>>
    \o (IF Truthy(files) THEN <<<<"--files">>, Join(<<",">>, files.val)>> ELSE <<>>)
    \o (IF Truthy(from_ts) THEN <<<<"--from">>, from_ts.val>> ELSE <<>>)
    \o (IF Truthy(to_ts) THEN <<<<"--to">>, to_ts.val>> ELSE <<>>)

\* re.compile(r"^([0-9]{8}_[0-9]{6})\s+([\+\.])\s+(.+)$").match(line)
history_pattern_match(l) ==
    /\ Len(l) >= 5
    /\ l[1] \in TsTokens /\ l[2] = " " /\ l[3] \in {"+", "."} /\ l[4] = " "

RECURSIVE get_history_parse(_)
get_history_parse(lines) ==
    IF lines = <<>> THEN <<>>
    ELSE LET l == Strip(Head(lines)) IN
         (IF history_pattern_match(l)
          THEN <<[timestamp |-> l[1],
                  status |-> IF l[3] = "+" THEN "new" ELSE "modified",
                  file |-> SubSeq(l, 5, Len(l))]>>
          ELSE <<>>) \o get_history_parse(Tail(lines))

get_history(c, files, from_ts, to_ts) ==
    /\ Invoke(c, "get_history", [NoParam EXCEPT !.files = files],
              get_history_args(files, from_ts, to_ts))
    /\ UNCHANGED <<tmp_dir, scratch, fs>>

get_history_resume(c) ==
    /\ Resumes(c, "get_history")
    /\ LET r == run_datezip(proc[c]) IN
       IF r.code # 0
       THEN Return(c, Raised(<<<<"Failed to get history:">>>> \o r.stderr))
       ELSE Return(c, Returned(get_history_parse(r.stdout)))
    /\ UNCHANGED <<op, param, args, proc, tmp_dir, opened, scratch, fs>>

\* ---------------------------------------------- get_historical_content
get_historical_content_args(timestamp, filename, dir) ==
    <<<<"--restore-time">>, timestamp, <<"--files">>, filename,
      <<"--dest">>, dir, <<"--restore-type">>, <<"e">>>>

\* tempfile.mkdtemp() makes a directory with a name no existing one has (the
\* names are interchangeable: the first free one stands for any of them)
FreshName ==
    TmpPool[CHOOSE i \in 1..MaxCalls :
                /\ TmpPool[i] \notin scratch
                /\ \A j \in 1..(i - 1) : TmpPool[j] \in scratch]

get_historical_content(c, timestamp, filename) ==
    /\ TmpNames \ scratch # {}
    /\ LET name == FreshName IN
          /\ tmp_dir' = [tmp_dir EXCEPT ![c] = TmpWord(name)]
          /\ scratch' = scratch \cup {name}
          /\ Invoke(c, "get_historical_content",
                    [NoParam EXCEPT !.timestamp = timestamp, !.filename = filename],
                    get_historical_content_args(timestamp, filename, TmpWord(name)))
    /\ UNCHANGED fs

\* target_path = os.path.join(tmp_dir, filename)
target_path(dir, filename) == PathJoin(dir, filename)

\* os.path.exists(path)
Exists(path) == \E f \in fs : f.path = Resolve(path)
ReadFile(path) == (CHOOSE f \in fs : f.path = Resolve(path)).data

get_historical_content_resume(c) ==
    /\ Resumes(c, "get_historical_content")
    /\ LET r == run_datezip(proc[c])
           target == target_path(tmp_dir[c], param[c].filename)
       IN
       IF r.code # 0
       THEN /\ Return(c, Returned(<<<<"Error retrieving historical content:">>>>
                                  \o OrElse(r.stderr, r.stdout)))
            /\ UNCHANGED opened
       ELSE IF Exists(target)
       THEN /\ opened' = [opened EXCEPT ![c] = @ \cup {Resolve(target)}]
            /\ \/ Return(c, Returned(<<<<ReadFile(target)>>>>))
               \/ Return(c, Raised(<<<<"UnicodeDecodeError">>>>))
       ELSE /\ Return(c, Returned(<<<<"Error: File not found in archive at timestamp">>
                                    \o param[c].filename \o param[c].timestamp>>))
            /\ UNCHANGED opened
    /\ Finally(c)
    /\ UNCHANGED <<op, param, args, proc, tmp_dir>>

\* -------------------------------------------------------- restore_state
\* the restore type not passed on: every restore takes the single archive
restore_state_args_just(timestamp, files, restore_type) ==
    <<<<"--restore-time">>, timestamp, <<"--restore-type">>, <<"j">>>>
    \o (IF Truthy(files) THEN <<<<"--files">>, Join(<<",">>, files.val)>> ELSE <<>>)

restore_state_args(timestamp, files, restore_type) ==
    <<<<"--restore-time">>, timestamp, <<"--restore-type">>, restore_type>>
    \o (IF Truthy(files) THEN <<<<"--files">>, Join(<<",">>, files.val)>> ELSE <<>>)

restore_state(c, timestamp, files, restore_type) ==
    /\ Invoke(c, "restore_state",
              [NoParam EXCEPT !.timestamp = timestamp, !.files = files],
              restore_state_args(timestamp, files, restore_type))
    /\ UNCHANGED <<tmp_dir, scratch, fs>>

restore_state_resume(c) ==
    /\ Resumes(c, "restore_state")
    /\ LET r == run_datezip(proc[c]) IN
       IF r.code # 0
       THEN Return(c, Returned(<<<<"Restore failed:">>>> \o OrElse(r.stderr, r.stdout)))
       ELSE Return(c, Returned(<<<<"Restore successful:">>>> \o r.stdout))
    /\ UNCHANGED <<op, param, args, proc, tmp_dir, opened, scratch, fs>>

\* ------------------------------------------------------ cleanup_backups
\* the two retention values passed in each other's place
cleanup_backups_args_swapped(keep_full, keep_days) ==
    <<<<"--cleanup">>, <<"--keep-full">>, Str(keep_days),
      <<"--keep-days">>, Str(keep_full)>>

cleanup_backups_args(keep_full, keep_days) ==
    <<<<"--cleanup">>, <<"--keep-full">>, Str(keep_full),
      <<"--keep-days">>, Str(keep_days)>>

cleanup_backups(c, keep_full, keep_days) ==
    /\ Invoke(c, "cleanup_backups", NoParam,
              cleanup_backups_args(keep_full, keep_days))
    /\ UNCHANGED <<tmp_dir, scratch, fs>>

cleanup_backups_resume(c) ==
    /\ Resumes(c, "cleanup_backups")
    /\ LET r == run_datezip(proc[c]) IN
       IF r.code # 0
       THEN Return(c, Returned(<<<<"Cleanup failed:">>>> \o OrElse(r.stderr, r.stdout)))
       ELSE Return(c, Returned(<<<<"Cleanup successful:">>>> \o r.stdout))
    /\ UNCHANGED <<op, param, args, proc, tmp_dir, opened, scratch, fs>>

\* ------------------------------------------- the datezip process exits
\* what a process prints when it exits with code 0
StdoutOf(o) ==
    IF o = "list_backups" THEN Outputs(ListLines)
    ELSE IF o = "get_history" THEN Outputs(HistoryLines)
    ELSE {<<<<"done">>>>}

\* the ways a process ends: success, failure reported on stderr, failure
\* reported on stdout only
Exits(o) ==
    {[code |-> 0, out |-> t, err |-> <<>>] : t \in StdoutOf(o)}
    \cup {[code |-> 1, out |-> <<>>, err |-> <<<<"err">>, <<" ">>>>],
          [code |-> 1, out |-> <<<<"msg">>>>, err |-> <<>>]}

\* The process of call c terminates.  A restore into --dest of a file that is
\* in the folded manifest writes that file under the destination; found
\* records whether the requested path was in the manifest.
datezip_exit(c) ==
    /\ pc[c] = "waiting"
    /\ proc[c].status = "running"
    /\ \E e \in Exits(op[c]), present \in BOOLEAN :
          LET found == /\ op[c] = "get_historical_content"
                       /\ param[c].filename \in PlainNames
                       /\ present
              extracted == found /\ e.code = 0
          IN
          /\ (present => op[c] = "get_historical_content")
          /\ proc' = [proc EXCEPT ![c] =
                        [status |-> "exited", code |-> e.code, out |-> e.out,
                         err |-> e.err, found |-> found]]
          /\ fs' = IF extracted
                   THEN fs \cup {[path |-> Resolve(PathJoin(args[c][6], args[c][4])),
                                  data |-> "old"]}
                   ELSE fs
    /\ UNCHANGED <<pc, op, param, args, result, tmp_dir, opened, scratch>>
    /\ UNCHANGED evars

\* ------------------------------------------------ the datezip engine
\* The engine is the datezip command the server runs.  Its archives, chains,
\* snapshot, restore and retention follow sections 3 and 4 of the
\* specification.
Paths == {"a.txt", "b.txt"}
Contents == {"1", "2"}
Absent == "absent"        \* the path does not exist
Unchanged == "unchanged"  \* the manifest says nothing about the path
Deleted == "deleted"      \* the manifest marks the path deleted
NoPred == 0
AutoMaxInc == 1           \* auto mode starts a new chain after this many INC

EmptyTree == [p \in Paths |-> Absent]

\* timestamps as the text YYYYMMDD_HHMMSS the command line carries
TsPool == <<"T1", "T2", "T3", "T4", "T5", "T6", "T7", "T8", "T9">>
TsText(n) == <<TsPool[n]>>
TsParse(w) ==
    IF \E n \in 1..Len(TsPool) : TsText(n) = w
    THEN CHOOSE n \in 1..Len(TsPool) : TsText(n) = w
    ELSE 0

Stamps(S) == {a.timestamp : a \in S}
ArchiveAt(S, ts) == CHOOSE a \in S : a.timestamp = ts

\* the chain of archive a: from its FULL ancestor, along the predecessor
\* links, to a
RECURSIVE ChainFrom(_, _, _)
ChainFrom(S, a, fuel) ==
    IF a.kind = "FULL" \/ a.predecessor \notin Stamps(S) \/ fuel = 0
    THEN <<a>>
    ELSE ChainFrom(S, ArchiveAt(S, a.predecessor), fuel - 1) \o <<a>>
ChainTo(S, a) == ChainFrom(S, a, Cardinality(S))

\* overlay one manifest on a tree
Apply(tree, m) ==
    [p \in Paths |->
        IF m[p] = Unchanged THEN tree[p]
        ELSE IF m[p] = Deleted THEN Absent
        ELSE m[p]]

\* fold the manifests of a chain, FULL first
RECURSIVE Fold(_)
Fold(chain) ==
    IF chain = <<>> THEN EmptyTree
    ELSE Apply(Fold(SubSeq(chain, 1, Len(chain) - 1)), chain[Len(chain)].manifest)

\* the Workspace Snapshot of archive a: e folds the chain prefix, j takes
\* the archive's own manifest
Materialize(S, a, type) ==
    IF type = <<"j">> THEN Apply(EmptyTree, a.manifest) ELSE Fold(ChainTo(S, a))

FullManifest(tree) ==
    [p \in Paths |-> IF tree[p] = Absent THEN Unchanged ELSE tree[p]]

\* what differs from the chain head's materialized state
Delta(old, new) ==
    [p \in Paths |->
        IF new[p] = old[p] THEN Unchanged
        ELSE IF new[p] = Absent THEN Deleted
        ELSE new[p]]

\* ---- command line of the engine
HasOpt(a, o) == \E i \in 1..Len(a) : a[i] = <<o>>
OptVal(a, o) == a[(CHOOSE i \in 1..Len(a) : a[i] = <<o>>) + 1]

\* split a word at its commas
RECURSIVE SplitFrom(_, _)
SplitFrom(cur, w) ==
    IF w = <<>> THEN <<cur>>
    ELSE IF Head(w) = "," THEN <<cur>> \o SplitFrom(<<>>, Tail(w))
    ELSE SplitFrom(cur \o <<Head(w)>>, Tail(w))
Split(w) == SplitFrom(<<>>, w)

ParseInt(w) == CHOOSE n \in (0 - 9)..9 : Str(n) = w

NoRun == [tool |-> "none", error |-> "", ts |-> 0, whole |-> FALSE,
          type |-> <<>>, keep_full |-> 0, keep_days |-> 0, removed |-> 0]

\* ---- Snapshot Engine: datezip [--full | --inc]
IncCount(S, a) ==
    Cardinality({i \in 1..Len(ChainTo(S, a)) : ChainTo(S, a)[i].kind = "INC"})

\* the kind of archive a run writes, "" when it cannot write one
SnapshotKind(a) ==
    IF HasOpt(a, "--full") THEN "FULL"
    ELSE IF HasOpt(a, "--inc") THEN (IF head = NoPred THEN "" ELSE "INC")
    ELSE IF head = NoPred \/ IncCount(store, ArchiveAt(store, head)) >= AutoMaxInc
        THEN "FULL"
    ELSE "INC"

\* no check of the timestamp against the archives already in the store
StampAlwaysFree(ts) == TRUE

\* timestamps have second resolution and are unique within the store: a
\* snapshot in a second that already has an archive cannot be written
StampFree(ts) == ts \notin Stamps(store)

Snapshot(a) ==
    LET kind == SnapshotKind(a)
        base == IF kind = "INC" THEN Fold(ChainTo(store, ArchiveAt(store, head)))
                ELSE EmptyTree
        new == [kind |-> kind, timestamp |-> now,
                manifest |-> IF kind = "FULL" THEN FullManifest(workspace)
                             ELSE Delta(base, workspace),
                predecessor |-> IF kind = "FULL" THEN NoPred ELSE head,
                taken |-> workspace]
    IN
    /\ \/ /\ kind = ""
          /\ last' = [NoRun EXCEPT !.tool = "snapshot", !.error = "NoActiveChain"]
          /\ UNCHANGED <<store, head>>
       \/ /\ kind # ""
          /\ ~StampFree(now)
          /\ last' = [NoRun EXCEPT !.tool = "snapshot", !.error = "WriteFailed"]
          /\ UNCHANGED <<store, head>>
       \/ /\ kind # ""
          /\ StampFree(now)
          /\ \/ /\ store' = store \cup {new}
                /\ head' = now
                /\ last' = [NoRun EXCEPT !.tool = "snapshot", !.ts = now]
             \/ /\ last' = [NoRun EXCEPT !.tool = "snapshot", !.error = "WriteFailed"]
                /\ UNCHANGED <<store, head>>
    /\ UNCHANGED <<workspace, now>>

\* ---- Restore Engine: datezip --restore-time T --restore-type e|j [--files L]
Restore(a) ==
    LET ts == TsParse(OptVal(a, "--restore-time"))
        type == OptVal(a, "--restore-type")
        whole == ~HasOpt(a, "--files")
        names == IF whole THEN {}
                 ELSE {Split(OptVal(a, "--files"))[i] :
                          i \in 1..Len(Split(OptVal(a, "--files")))}
    IN
    IF ts \notin Stamps(store)
    THEN /\ last' = [NoRun EXCEPT !.tool = "restore", !.error = "TimestampNotFound",
                                  !.ts = ts, !.whole = whole, !.type = type]
         /\ UNCHANGED <<store, head, workspace, now>>
    ELSE LET tree == Materialize(store, ArchiveAt(store, ts), type)
             wanted == {p \in Paths : whole \/ <<p>> \in names}
             out == [p \in Paths |-> IF p \in wanted THEN tree[p] ELSE Absent]
             missing == {n \in names : \A p \in Paths : n = <<p>> => tree[p] = Absent}
         IN
         /\ workspace' =
               IF whole THEN out
               ELSE [p \in Paths |-> IF out[p] # Absent THEN out[p] ELSE workspace[p]]
         /\ last' = [NoRun EXCEPT !.tool = "restore", !.ts = ts,
                                  !.whole = whole, !.type = type,
                                  !.error = IF missing # {} THEN "FileNotInArchive"
                                            ELSE ""]
         /\ UNCHANGED <<store, head, now>>

\* ---- Retention Manager: datezip --cleanup --keep-full N --keep-days D
Fulls(S) == {a \in S : a.kind = "FULL"}
Members(S, f) == {x \in S : ChainTo(S, x)[1] = f}
Newer(S, f) == Cardinality({g \in Fulls(S) : g.timestamp > f.timestamp})
MostRecentChain(S) == UNION {Members(S, f) : f \in {g \in Fulls(S) : Newer(S, g) = 0}}

\* a chain goes when it is neither among the keep_full newest nor the most
\* recent one, and its FULL archive is older than keep_days
Removable(S, f, keep_full, keep_days) ==
    /\ Newer(S, f) >= keep_full
    /\ Newer(S, f) # 0
    /\ now - f.timestamp > keep_days * TicksPerDay

Cleanup(a) ==
    LET keep_full == ParseInt(OptVal(a, "--keep-full"))
        keep_days == ParseInt(OptVal(a, "--keep-days"))
        gone == UNION {Members(store, f) :
                         f \in {g \in Fulls(store) :
                                   Removable(store, g, keep_full, keep_days)}}
    IN
    /\ store' = store \ gone
    /\ last' = [NoRun EXCEPT !.tool = "cleanup", !.removed = Cardinality(gone),
                             !.keep_full = keep_full, !.keep_days = keep_days]
    /\ UNCHANGED <<head, workspace, now>>

\* ---- the command
Datezip(a) ==
    IF HasOpt(a, "--cleanup") THEN Cleanup(a)
    ELSE IF HasOpt(a, "--restore-time") THEN Restore(a)
    ELSE Snapshot(a)

\* ---- one tool call at a time, run to completion against the engine
CreateBackup(mode) ==
    /\ Datezip(create_backup_args(mode))
    /\ UNCHANGED wvars

RestoreState(timestamp, files, restore_type) ==
    /\ Datezip(restore_state_args(timestamp, files, restore_type))
    /\ UNCHANGED wvars

CleanupBackups(keep_full, keep_days) ==
    /\ Datezip(cleanup_backups_args(keep_full, keep_days))
    /\ UNCHANGED wvars

\* ---- the user works in the project directory; time passes
Tick ==
    /\ now' = now + 1
    /\ last' = NoRun
    /\ UNCHANGED <<store, head, workspace, wvars>>

EditFile(p, c) ==
    /\ workspace[p] # c
    /\ workspace' = [workspace EXCEPT ![p] = c]
    /\ last' = NoRun
    /\ UNCHANGED <<store, head, now, wvars>>

DeleteFile(p) ==
    /\ workspace[p] # Absent
    /\ workspace' = [workspace EXCEPT ![p] = Absent]
    /\ last' = NoRun
    /\ UNCHANGED <<store, head, now, wvars>>

\* what the user writes into each file
Written(p) == IF p = "a.txt" THEN Contents ELSE {"1"}

EngineFiles == {None, Some(<<<<"a.txt">>>>)}
KeepFullValues == 0..2
KeepDaysValues == 0..1

\* The user edits the project, takes snapshots and restores them.
EngineNext ==
    \/ now < MaxTime /\ Tick
    \/ \E p \in Paths : \E c \in Written(p) : EditFile(p, c)
    \/ \E p \in Paths : DeleteFile(p)
    \/ \E mode \in Modes :
          /\ Cardinality(store) < MaxArchives \/ ~StampFree(now)
          /\ CreateBackup(mode)
    \/ \E n \in 1..MaxTime, files \in EngineFiles, rt \in RestoreTypes :
          RestoreState(TsText(n), files, rt)

\* Snapshots accumulate over time and are pruned.
RetentionNext ==
    \/ now < MaxAge /\ Tick
    \/ \E mode \in Modes :
          /\ Cardinality(store) < MaxKept \/ ~StampFree(now)
          /\ CreateBackup(mode)
    \/ \E kf \in KeepFullValues, kd \in KeepDaysValues : CleanupBackups(kf, kd)

\* ----------------------------------------------------------------- Spec
HistoryFiles == {None, Some(<<>>), Some(<<<<"a.txt">>>>)}
FromValues == {None, Some(<<"T1">>)}
ToValues == {None, Some(<<"T2">>)}
FilesValues == {None} \cup {Some(l) : l \in FileLists}

Init ==
    /\ pc = [c \in Calls |-> "idle"]
    /\ op = [c \in Calls |-> "none"]
    /\ param = [c \in Calls |-> NoParam]
    /\ args = [c \in Calls |-> <<>>]
    /\ proc = [c \in Calls |-> NoProc]
    /\ result = [c \in Calls |-> NoResult]
    /\ tmp_dir = [c \in Calls |-> <<>>]
    /\ opened = [c \in Calls |-> {}]
    /\ scratch = {}
    /\ fs = LiveFiles
    /\ store = {}
    /\ head = NoPred
    /\ workspace = EmptyTree
    /\ now = 1
    /\ last = NoRun

vars == <<wvars, evars>>

\* the steps every call takes, whatever the tool
RunSteps(c) ==
    \/ run_datezip_spawn(c)
    \/ run_datezip_spawn_error(c)
    \/ datezip_exit(c)
    \/ Collect(c)

\* One client that issues one tool call at a time, with any arguments.
Next ==
    \/ \E mode \in Modes : create_backup(1, mode)
    \/ create_backup_resume(1)
    \/ list_backups(1)
    \/ list_backups_resume(1)
    \/ \E files \in HistoryFiles, f \in FromValues, t \in ToValues :
          get_history(1, files, f, t)
    \/ get_history_resume(1)
    \/ \E ts \in Timestamps, name \in FileNames :
          get_historical_content(1, ts, name)
    \/ get_historical_content_resume(1)
    \/ \E ts \in Timestamps, files \in FilesValues, rt \in RestoreTypes :
          restore_state(1, ts, files, rt)
    \/ restore_state_resume(1)
    \/ \E kf \in KeepValues, kd \in KeepValues : cleanup_backups(1, kf, kd)
    \/ cleanup_backups_resume(1)
    \/ RunSteps(1)

Spec == Init /\ [][Next]_vars

\* The event loop runs every handler that can continue; nothing makes the
\* datezip process exit.
Fairness ==
    /\ WF_vars(create_backup_resume(1))
    /\ WF_vars(list_backups_resume(1))
    /\ WF_vars(get_history_resume(1))
    /\ WF_vars(get_historical_content_resume(1))
    /\ WF_vars(restore_state_resume(1))
    /\ WF_vars(cleanup_backups_resume(1))
    /\ WF_vars(run_datezip_spawn(1) \/ run_datezip_spawn_error(1))

FairSpec == Init /\ [][Next]_vars /\ Fairness

ConcNames == {<<"a.txt">>, <<"/", "ws", "/", "a.txt">>}

\* Up to MaxCalls calls in flight at once in the asyncio event loop: the
\* store-mutating tools and the scratch-directory tool.
ConcNext ==
    \E c \in Calls :
        \/ \E mode \in Modes : create_backup(c, mode)
        \/ create_backup_resume(c)
        \/ cleanup_backups(c, 1, 0)
        \/ cleanup_backups_resume(c)
        \/ \E name \in ConcNames : get_historical_content(c, <<"T1">>, name)
        \/ get_historical_content_resume(c)
        \/ RunSteps(c)

ConcSpec == Init /\ [][ConcNext]_vars

EngineSpec == Init /\ [][EngineNext]_vars

RetentionSpec == Init /\ [][RetentionNext]_vars

\* ================================================================ claims
Mutating == {"create_backup", "cleanup_backups"}
Running(c) == pc[c] = "waiting" /\ proc[c].status = "running"

\* C1: at most one snapshot or cleanup run of datezip is in progress at any
\* time.
C1_OneStoreWriter ==
    Cardinality({c \in Calls : op[c] \in Mutating /\ Running(c)}) <= 1

\* get_historical_content calls that are between mkdtemp and their return
InRead == {c \in Calls : op[c] = "get_historical_content"
                          /\ pc[c] \in {"spawning", "waiting"}}

\* C2: every get_historical_content call in progress has a scratch directory
\* of its own, and the scratch directories that exist are exactly those of
\* the calls in progress: once a call has returned or raised, on any path,
\* its directory and the files in it are gone.
C2_ScratchRemoved ==
    /\ scratch = {tmp_dir[c][4] : c \in InRead}
    /\ \A c \in InRead, d \in InRead : c # d => tmp_dir[c] # tmp_dir[d]
    /\ \A f \in fs : f.path[1] = "tmp" => f.path[2] \in scratch

\* a call has ended with an exception raised while reading the extracted
\* file, while another call still holds its own scratch directory
C2_Witness ==
    \E c \in Calls, d \in InRead :
        /\ op[c] = "get_historical_content" /\ pc[c] = "done"
        /\ proc[c].status = "exited" /\ result[c].tag = "raise"
        /\ tmp_dir[c][4] \notin scratch
        /\ tmp_dir[d][4] \in scratch

\* C3: get_historical_content opens only files under the scratch directory
\* of the call.
C3_ReadsOnlyScratch ==
    \A c \in Calls : \A path \in opened[c] : IsUnder(path, Resolve(tmp_dir[c]))

\* C4: a tool call that waits for datezip eventually returns.
C4_EveryCallReturns == (pc[1] = "waiting") ~> (pc[1] = "done")

\* C5: a list returned by list_backups or get_history has one entry for
\* every line the datezip process printed: it is empty only when the process
\* reported nothing, and never shorter than the report.
C5_NoSilentLoss ==
    \A c \in Calls :
        (/\ pc[c] = "done"
         /\ op[c] \in {"list_backups", "get_history"}
         /\ result[c].tag = "return")
        => Len(result[c].val) = Len(run_datezip(proc[c]).stdout)

ErrorTexts == {"Error retrieving historical content:",
               "Error: File not found in archive at timestamp"}

\* C9: get_historical_content for a file name that is not in the folded
\* manifest ends with an error message, never with file content.
C9_MissingFileIsError ==
    \A c \in Calls :
        (/\ pc[c] = "done"
         /\ op[c] = "get_historical_content"
         /\ proc[c].status = "exited"
         /\ ~proc[c].found)
        => /\ result[c].tag = "return"
           /\ result[c].val[1][1] \in ErrorTexts

\* the paths a --files argument names
NamedBy(a) ==
    {Split(OptVal(a, "--files"))[i] : i \in 1..Len(Split(OptVal(a, "--files")))}
Elements(list) == {list[i] : i \in 1..Len(list)}

\* C10: restore_state runs a whole-project restore only when files is
\* omitted; a files value the caller supplies, the empty list included,
\* restricts the restore to exactly the supplied paths.
C10_FilesRestrict ==
    \A c \in Calls :
        op[c] = "restore_state" =>
            IF param[c].files.given
            THEN /\ HasOpt(args[c], "--files")
                 /\ NamedBy(args[c]) = Elements(param[c].files.val)
            ELSE ~HasOpt(args[c], "--files")

\* an archive that no other archive of the store has as predecessor
IsChainLatest(S, a) == \A b \in S : b.kind = "INC" => b.predecessor # a.timestamp

Complete(S) == \A a \in S : ChainTo(S, a)[1].kind = "FULL"

====
